---- MODULE Spec2Model ----
(***************************************************************************)
(* Data access layer of the A-share data server: the Baostock session      *)
(* guard (src/src/utils.py), the fetch skeleton and the facade methods of  *)
(* BaostockDataSource (src/src/baostock_data_source.py).                   *)
(*                                                                         *)
(* One process makes facade calls one after the other.  A call is split    *)
(* into the steps at which the provider is entered or left, so that the    *)
(* states "login is executing", "the body is running" and "logout is       *)
(* executing" are visible.  The provider (login, query, cursor, logout) is *)
(* the environment: every provider call either returns one of the values   *)
(* drawn from the small sets below or raises an exception that is not one  *)
(* of the data-source error classes.  The descriptor calls of the guard    *)
(* (os.dup, os.open, os.dup2, os.close) are taken to succeed.              *)
(*                                                                         *)
(* Six specifications share the variables.  Spec is the data access        *)
(* layer.  PairSpec is the same layer run in pairs of calls, the second    *)
(* repeating the arguments and the provider behaviour of the first.        *)
(* CalendarSpec is the calendar tools of src/src/tools/date_utils.py       *)
(* (get_latest_trading_date, is_trading_day, previous_trading_day,         *)
(* next_trading_day) over a provider calendar; there a get_trade_dates     *)
(* call is one step that ends as the data access layer can end it: with    *)
(* the rows of the asked range, with NoDataFoundError when the range has   *)
(* no row, or with LoginError or DataSourceError.  Date arguments are      *)
(* zero-padded yyyy-mm-dd strings or a string that is no date; the caller  *)
(* may pass the answer of previous_trading_day to next_trading_day and     *)
(* back.  FrameSpec is get_market_analysis_timeframe of the same file.     *)
(* WrapSpec is the registered tools of src/src/tools around the facade     *)
(* methods: their argument checks, the keyword call of the facade method   *)
(* and their except clauses.  GuardSpec is two threads of one process,     *)
(* each in baostock_login_context once, preempted between any two calls.   *)
(***************************************************************************)
EXTENDS Integers, Sequences, FiniteSets, TLC

\* ------------------------------------------------------------- bounds
\* most rows a provider cursor holds
MaxRows == 2
\* longest field-selection list a caller passes
MaxFields == 2
\* most trading days in a provider calendar
MaxTradingDays == 3

\* ------------------------------------------------------------- dates
\* A date of datetime is a record [y, m, d]; a date string is a sequence of
\* characters.  strftime and strptime convert between the two.
Date(y, m, d) == [y |-> y, m |-> m, d |-> d]
NoDate == [y |-> 0, m |-> 0, d |-> 0]

IsLeap(y) == (y % 4 = 0 /\ y % 100 # 0) \/ y % 400 = 0
\* calendar.monthrange(y, m)[1]
DaysInMonth(y, m) ==
    IF m = 2 THEN (IF IsLeap(y) THEN 29 ELSE 28)
    ELSE IF m \in {4, 6, 9, 11} THEN 30 ELSE 31

\* date + timedelta(days=1), date - timedelta(days=1)
NextDay(t) ==
    IF t.d < DaysInMonth(t.y, t.m) THEN Date(t.y, t.m, t.d + 1)
    ELSE IF t.m < 12 THEN Date(t.y, t.m + 1, 1)
    ELSE Date(t.y + 1, 1, 1)
PrevDay(t) ==
    IF t.d > 1 THEN Date(t.y, t.m, t.d - 1)
    ELSE IF t.m > 1 THEN Date(t.y, t.m - 1, DaysInMonth(t.y, t.m - 1))
    ELSE Date(t.y - 1, 12, 31)

\* date + timedelta(days=n), n of either sign
RECURSIVE AddDays(_, _)
AddDays(t, n) ==
    IF n = 0 THEN t
    ELSE IF n > 0 THEN AddDays(NextDay(t), n - 1)
    ELSE AddDays(PrevDay(t), n + 1)

\* the order of dates
DateBefore(a, b) == <<a.y, a.m, a.d>> # <<b.y, b.m, b.d>> /\
    (a.y < b.y \/ (a.y = b.y /\ (a.m < b.m \/ (a.m = b.m /\ a.d < b.d))))
DateNotAfter(a, b) == a = b \/ DateBefore(a, b)

\* the characters of date strings, in code-point order
DateChars == <<"-", "/", "0", "1", "2", "3", "4", "5", "6", "7", "8", "9">>
CharCode(c) == CHOOSE i \in DOMAIN DateChars : DateChars[i] = c
DigitChar(n) == DateChars[n + 3]
DigitValue(c) == CharCode(c) - 3
IsDigitChar(c) == c \in {DigitChar(n) : n \in 0..9}

\* strftime("%Y-%m-%d")
Pad2(n) == <<DigitChar(n \div 10), DigitChar(n % 10)>>
Pad4(n) == Pad2(n \div 100) \o Pad2(n % 100)
strftime(t) == Pad4(t.y) \o <<"-">> \o Pad2(t.m) \o <<"-">> \o Pad2(t.d)

\* str < str, str <= str: the comparison of Python strings
RECURSIVE StrLess(_, _)
StrLess(a, b) ==
    IF b = <<>> THEN FALSE
    ELSE IF a = <<>> THEN TRUE
    ELSE IF Head(a) = Head(b) THEN StrLess(Tail(a), Tail(b))
    ELSE CharCode(Head(a)) < CharCode(Head(b))
StrLeq(a, b) == a = b \/ StrLess(a, b)

\* datetime.strptime(s, "%Y-%m-%d") on the strings the model passes: a
\* zero-padded yyyy-mm-dd string naming a day of the calendar parses, any
\* other string raises ValueError.
Number(cs) == IF Len(cs) = 2 THEN 10 * DigitValue(cs[1]) + DigitValue(cs[2])
              ELSE 1000 * DigitValue(cs[1]) + 100 * DigitValue(cs[2])
                   + 10 * DigitValue(cs[3]) + DigitValue(cs[4])
WellFormed(s) ==
    /\ Len(s) = 10
    /\ s[5] = "-" /\ s[8] = "-"
    /\ \A i \in {1, 2, 3, 4, 6, 7, 9, 10} : IsDigitChar(s[i])
Parsed(s) == Date(Number(SubSeq(s, 1, 4)), Number(SubSeq(s, 6, 7)), Number(SubSeq(s, 9, 10)))
strptime_raises(s) ==
    IF ~WellFormed(s) THEN TRUE
    ELSE IF Parsed(s).m \notin 1..12 THEN TRUE
    ELSE Parsed(s).d \notin 1..DaysInMonth(Parsed(s).y, Parsed(s).m)
strptime(s) == Parsed(s)

\* ------------------------------------------------------------- calendar inputs
CalendarTools == {"get_latest_trading_date", "is_trading_day",
                  "previous_trading_day", "next_trading_day"}
\* datetime.now(): days at the start and at the end of a month
Todays == {Date(2025, 3, 1), Date(2025, 3, 2), Date(2025, 3, 28),
           Date(2025, 3, 29), Date(2025, 3, 31)}
\* the date argument of a tool: two dates, and a string that is no date
BadDateString == <<"2", "0", "2", "5", "/", "0", "3", "/", "0", "1">>
DateArgs == {strftime(Date(2025, 3, 1)), strftime(Date(2025, 3, 31)), BadDateString}
\* days the provider may flag as trading days
CandidateDays == {Date(2025, 2, 28), Date(2025, 3, 1), Date(2025, 3, 2), Date(2025, 3, 28),
                  Date(2025, 3, 29), Date(2025, 3, 31), Date(2025, 4, 1)}
\* the last day the provider has calendar rows for
LastDataDays == {Date(2025, 3, 15), Date(2025, 12, 31)}
\* a provider calendar: its trading days, its last day, the order of its rows
Calendars ==
    [days : {c \in SUBSET CandidateDays : Cardinality(c) <= MaxTradingDays},
     until : LastDataDays,
     descending : BOOLEAN]
NoCalendar == [days |-> {}, until |-> NoDate, descending |-> FALSE]
\* what a tool returns: a string
NoResult == [status |-> "none", value |-> <<>>]
Answer(str) == [status |-> "returned", value |-> str]
\* the answers of is_trading_day (the source's one-character yes and no)
AnswerYes == <<"yes">>
AnswerNo == <<"no">>

\* what get_market_analysis_timeframe has computed: nothing yet
NoFrame == [raised |-> FALSE, start_date |-> NoDate, middle_date |-> NoDate,
            end_date |-> NoDate, start_iso_date |-> <<>>, end_iso_date |-> <<>>]
\* period keywords: the four of the docstring and two others
Periods == {"recent", "quarter", "half_year", "year", "month", ""}
\* datetime.now() of get_market_analysis_timeframe: days of a leap and of a common year
FrameDays ==
    {t \in {Date(y, m, d) : y \in {2024, 2025}, m \in 1..12,
                            d \in {1, 10, 14, 15, 20, 28, 29, 30, 31}} :
       t.d <= DaysInMonth(t.y, t.m)}

\* ------------------------------------------------------------- text
\* Python strings that the code inspects are sequences of characters.
UpperAlphabet == <<"A", "B", "C", "D", "E", "F", "G", "H", "I", "J", "K", "L", "M", "N", "O", "P", "Q", "R", "S", "T", "U", "V", "W", "X", "Y", "Z">>
LowerAlphabet == <<"a", "b", "c", "d", "e", "f", "g", "h", "i", "j", "k", "l", "m", "n", "o", "p", "q", "r", "s", "t", "u", "v", "w", "x", "y", "z">>

\* str.lower() on one character
LowerChar(c) ==
    IF \E i \in DOMAIN UpperAlphabet : UpperAlphabet[i] = c
    THEN LowerAlphabet[CHOOSE i \in DOMAIN UpperAlphabet : UpperAlphabet[i] = c]
    ELSE c

\* str.lower()
Lower(s) == [i \in DOMAIN s |-> LowerChar(s[i])]

\* pat in s (substring test)
Contains(s, pat) ==
    \E i \in 0..(Len(s) - Len(pat)) : SubSeq(s, i + 1, i + Len(pat)) = pat

NoRecordPattern == <<"n", "o", " ", "r", "e", "c", "o", "r", "d", " ", "f", "o", "u", "n", "d">>

\* status messages the provider may send
MsgSuccess == <<"s", "u", "c", "c", "e", "s", "s">>
MsgNoRecordMixed == <<"N", "o", " ", "R", "e", "c", "o", "r", "d", " ", "F", "o", "u", "n", "d">>
MsgNoRecordInside == <<"e", "r", "r", ":", " ", "N", "O", " ", "R", "E", "C", "O", "R", "D", " ", "F", "O", "U", "N", "D", ".">>
MsgNetwork == <<"n", "e", "t", "w", "o", "r", "k", " ", "e", "r", "r", "o", "r">>
MsgNoRecord == <<"n", "o", " ", "r", "e", "c", "o", "r", "d">>
Messages == {MsgSuccess, MsgNoRecordMixed, MsgNoRecordInside, MsgNetwork, MsgNoRecord}

\* status codes the provider may send: success, the not-found sentinel, another failure
StatusCodes == {"0", "10002", "10004"}

\* ------------------------------------------------------------- facade methods
FinancialMethods ==
    {"get_profit_data", "get_operation_data", "get_growth_data",
     "get_balance_data", "get_cash_flow_data", "get_dupont_data"}
IndexMethods == {"get_sz50_stocks", "get_hs300_stocks", "get_zz500_stocks"}
MacroMethods ==
    {"get_deposit_rate_data", "get_loan_rate_data", "get_required_reserve_ratio_data",
     "get_money_supply_data_month", "get_money_supply_data_year"}
InlineMethods ==
    {"get_historical_k_data", "get_stock_basic_info", "get_dividend_data",
     "get_adjust_factor_data", "get_performance_express_report",
     "get_forecast_report", "get_stock_industry", "get_trade_dates", "get_all_stock"}
Methods == FinancialMethods \cup IndexMethods \cup MacroMethods \cup InlineMethods

\* the methods that take a field-selection list
FieldMethods == {"get_historical_k_data", "get_stock_basic_info"}

DEFAULT_K_FIELDS ==
    <<"date", "code", "open", "high", "low", "close", "preclose",
      "volume", "amount", "adjustflag", "turn", "tradestatus",
      "pctChg", "peTTM", "pbMRQ", "psTTM", "pcfNcfTTM", "isST">>

\* ------------------------------------------------------------- inputs
\* a field-list entry is a Python value: a string or something else
StrEntry(name) == [isStr |-> TRUE, v |-> name]
NonStrEntry == [isStr |-> FALSE, v |-> "5"]
FieldEntries == {StrEntry("code"), StrEntry("code_name"), StrEntry("bogus"), NonStrEntry}

RECURSIVE SeqsUpTo(_, _)
SeqsUpTo(S, n) ==
    IF n = 0 THEN {<<>>}
    ELSE LET shorter == SeqsUpTo(S, n - 1)
         IN  shorter \cup {Append(s, x) : s \in {t \in shorter : Len(t) = n - 1}, x \in S}

\* fields=None and fields=[] take the same branches in the code; both are <<>>
FieldLists == SeqsUpTo(FieldEntries, MaxFields)

Years == {<<"2", "0", "2", "3">>, <<"2", "3">>, <<"2", "0", "a", "3">>}
Quarters == {0, 1, 4, 5}
\* the year and quarter of a call that takes neither
NoYear == <<>>
NoQuarter == {0}

\* the column lists a provider cursor may carry (rs.fields)
ProviderFields(m) ==
    CASE m = "get_trade_dates" -> {<<"calendar_date", "is_trading_day">>}
      [] m = "get_stock_basic_info" ->
            {<<"code", "code_name", "ipoDate">>, <<"code_name", "status", "code">>}
      [] OTHER -> {<<"code", "value">>}

\* row r of a cursor with columns flds; the cell of column c in row r is <<r, c>>
ProviderRow(r, flds) == [i \in DOMAIN flds |-> <<r, flds[i]>>]
ProviderRows(n, flds) == [r \in 1..n |-> ProviderRow(r, flds)]

\* ------------------------------------------------------------- values
NoExc == [type |-> "none", tag |-> "none"]
Exc(type, tag) == [type |-> type, tag |-> tag]
NoTable == [columns |-> <<>>, rows |-> <<>>]
Pending == [status |-> "none", exc |-> NoExc, value |-> NoTable]
Returned(table) == [status |-> "returned", exc |-> NoExc, value |-> table]
Raised(exc) == [status |-> "raised", exc |-> exc, value |-> NoTable]
NoCursor == [error_code |-> "none", error_msg |-> <<>>, fields |-> <<>>, rows |-> <<>>]

\* the error taxonomy of the spec, from the exception classes
Kind(exc) ==
    CASE exc.type = "LoginError" -> "Login"
      [] exc.type = "NoDataFoundError" -> "NoData"
      [] exc.type = "DataSourceError" -> "ProviderError"
      [] exc.type = "ValueError" -> "InvalidInput"
      [] OTHER -> "Unclassified"

\* ------------------------------------------------------------- tool wrappers
\* the registered tools modelled, by the shape of their code
FinancialTools == {"get_profit_data", "get_dupont_data"}
MacroTools == {"get_deposit_rate_data", "get_required_reserve_ratio_data"}
ConstituentTools == {"get_sz50_stocks"}
\* the tools whose try has the five except clauses, and those with one
FullChainTools ==
    FinancialTools \cup MacroTools \cup ConstituentTools
    \cup {"get_historical_k_data", "get_dividend_data", "get_trade_dates"}
SingleClauseTools ==
    {"get_stock_industry", "get_index_constituents",
     "get_performance_express_report", "search_stocks"}
Wrappers == FullChainTools \cup SingleClauseTools

Frequencies == {"d", "5", "x"}
AdjustFlags == {"1", "3", "0"}
DividendYearTypes == {"report", "operate", "trade"}
ReserveYearTypes == {"0", "1", "2"}
IndexNames ==
    {<<"h", "s", "3", "0", "0">>, <<" ", "H", "S", "3", "0", "0", " ">>,
     <<"s", "z", "5", "0">>, <<"z", "z", "5", "0", "0">>,
     <<"c", "s", "i", "3", "0", "0">>, <<>>}
Keywords == {<<>>, <<" ">>, <<"6", "0", "0">>, <<"S", "Z">>}

\* the arguments a tool checks; a tool that has not got one carries its default
NoArgs ==
    [year |-> NoYear, quarter |-> 0, frequency |-> "d", adjust_flag |-> "3",
     year_type |-> "none", index |-> <<>>, keyword |-> <<>>]
ArgsOf(w) ==
    CASE w \in FinancialTools ->
            {[NoArgs EXCEPT !.year = y, !.quarter = q] : y \in Years, q \in Quarters}
      [] w = "get_historical_k_data" ->
            {[NoArgs EXCEPT !.frequency = f, !.adjust_flag = a] :
                f \in Frequencies, a \in AdjustFlags}
      [] w = "get_dividend_data" ->
            {[NoArgs EXCEPT !.year = y, !.year_type = t] :
                y \in Years, t \in DividendYearTypes}
      [] w = "get_index_constituents" -> {[NoArgs EXCEPT !.index = i] : i \in IndexNames}
      [] w = "get_required_reserve_ratio_data" ->
            {[NoArgs EXCEPT !.year_type = t] : t \in ReserveYearTypes}
      [] w = "search_stocks" -> {[NoArgs EXCEPT !.keyword = k] : k \in Keywords}
      [] OTHER -> {NoArgs}

\* the frame get_all_stock serves, and the frame of every other method
StockList ==
    [columns |-> <<"code", "tradeStatus">>,
     rows |-> <<<<<<"s", "h", ".", "6", "0", "0">>, "1">>,
                <<<<"s", "z", ".", "0", "0", "1">>, "0">>>>]
SomeFrame == [columns |-> <<"code", "value">>, rows |-> <<<<"c1", "v1">>>>]
\* how a facade method can end: a frame or one of the four classified errors
FacadeOutcomes(w) ==
    {Returned(IF w = "search_stocks" THEN StockList ELSE SomeFrame),
     Raised(Exc("NoDataFoundError", "empty_result")),
     Raised(Exc("LoginError", "login_failed")),
     Raised(Exc("DataSourceError", "api_error")),
     Raised(Exc("ValueError", "invalid_input"))}

\* ------------------------------------------------------------- threads
Threads == {1, 2}
\* a thread that has not entered baostock_login_context
NoScope == [at |-> "idle", saved_stdout_fd |-> "closed", lg |-> "none", lo |-> "none"]

\* ------------------------------------------------------------- chained calls
\* no call came before this one
NoFirst == [tool |-> "none", date |-> <<>>, dates_df |-> Pending, result |-> NoResult]

VARIABLES
    pc,              \* position of the process in the current facade call
    method,          \* the facade method called
    year, quarter,   \* arguments of a periodic-report fetch
    fields,          \* the caller's field-selection list
    fd1,             \* what the standard-output descriptor refers to
    saved_stdout_fd, \* what the guard's saved descriptor refers to
    lg,              \* bs.login(): "none" before it ends, its error_code, or "raised"
    lo,              \* bs.logout(): "none" before it ends, "returned" or "raised"
    rs,              \* the provider cursor of the query
    queryArg,        \* the field argument the provider query received
    data_list,       \* rows drained so far
    bodyOutcome,     \* how the body of the with-block ended
    outcome,         \* how the facade call ended
    log,             \* provider calls and body boundaries of this call, in order
    prev,            \* the call before this one, when a pair of calls is compared
    tpc,             \* position of the process in the current calendar tool
    tool,            \* the calendar tool called
    today,           \* datetime.now() of the tool call
    date,            \* the tool's date argument
    calendar,        \* the provider's trading calendar
    asked,           \* start_date and end_date the tool passed to get_trade_dates
    dates_df,        \* how get_trade_dates ended
    result,          \* what the tool returned
    period,          \* the period keyword of get_market_analysis_timeframe
    timeframe,       \* the dates get_market_analysis_timeframe computed
    first,           \* the tool call whose answer is the date of this one
    wpc,             \* position of the process in the current tool wrapper
    wrapper,         \* the registered tool called
    args,            \* the arguments the tool validates
    served,          \* how the facade method ends once its body runs
    calls,           \* the facade methods invoked, with their keywords
    facade,          \* how the facade call ended
    provider_args,   \* the extra keywords the provider query received
    answer,          \* what the tool returned
    scopes,          \* each thread's position in baostock_login_context
    shared_fd1,      \* the standard-output descriptor the threads share
    session,         \* the provider's process-wide login slot
    overlap          \* two scopes have been in flight together

vars == <<pc, method, year, quarter, fields, fd1, saved_stdout_fd, lg, lo, rs,
          queryArg, data_list, bodyOutcome, outcome, log, prev,
          tpc, tool, today, date, calendar, asked, dates_df, result,
          period, timeframe, first,
          wpc, wrapper, args, served, calls, facade, provider_args, answer,
          scopes, shared_fd1, session, overlap>>

\* the variables of the calendar tools, and those of the data access layer
toolVars == <<tpc, tool, today, date, calendar, asked, dates_df, result, first>>
frameVars == <<period, timeframe>>
wrapVars == <<wpc, wrapper, args, served, calls, facade, provider_args, answer>>
guardVars == <<scopes, shared_fd1, session, overlap>>
\* the variables a step of the data access layer leaves alone
notData == <<toolVars, frameVars, wrapVars, guardVars>>
\* the variables a step of the trading-day tools leaves alone
notCalendar == <<frameVars, wrapVars, guardVars>>
\* the variables a step of get_market_analysis_timeframe leaves alone
notFrame == <<wrapVars, guardVars>>
dataVars == <<pc, method, year, quarter, fields, fd1, saved_stdout_fd, lg, lo, rs,
              queryArg, data_list, bodyOutcome, outcome, log, prev>>

callVars == <<method, year, quarter, fields>>

\* what is kept of a call: its arguments, what the provider did, how it ended
NoDid == [lg |-> "none", lo |-> "none", error_code |-> "none", error_msg |-> <<>>,
          fields |-> <<>>, given |-> {}, left |-> {}, raised |-> "none"]
NoPrev == [set |-> FALSE, call |-> <<>>, did |-> NoDid, outcome |-> Pending, log |-> <<>>]

Init ==
    /\ pc = "idle"
    /\ method = "none"
    /\ year = NoYear
    /\ quarter \in NoQuarter
    /\ fields = <<>>
    /\ fd1 = "orig"
    /\ saved_stdout_fd = "closed"
    /\ lg = "none"
    /\ lo = "none"
    /\ rs = NoCursor
    /\ queryArg = <<>>
    /\ data_list = <<>>
    /\ bodyOutcome = Pending
    /\ outcome = Pending
    /\ log = <<>>
    /\ prev = NoPrev
    /\ tpc = "idle"
    /\ tool = "none"
    /\ today = NoDate
    /\ date = <<>>
    /\ calendar = NoCalendar
    /\ asked = <<>>
    /\ dates_df = Pending
    /\ result = NoResult
    /\ period = "none"
    /\ timeframe = NoFrame
    /\ first = NoFirst
    /\ wpc = "idle"
    /\ wrapper = "none"
    /\ args = NoArgs
    /\ served = Pending
    /\ calls = <<>>
    /\ facade = Pending
    /\ provider_args = {}
    /\ answer = NoResult
    /\ scopes = [t \in Threads |-> NoScope]
    /\ shared_fd1 = "orig"
    /\ session = "out"
    /\ overlap = FALSE

\* ------------------------------------------------------------- code: pure parts
Range(s) == {s[i] : i \in DOMAIN s}

\* all(isinstance(f, str) for f in fields)
AllStrings(flds) == \A i \in DOMAIN flds : flds[i].isStr

\* ",".join(names)
RECURSIVE Join(_)
Join(names) ==
    IF names = <<>> THEN <<>>
    ELSE IF Len(names) = 1 THEN <<names[1]>>
    ELSE <<names[1], ",">> \o Join(Tail(names))

\* _format_fields raises ValueError: a non-empty list with an entry that is no string
format_fields_raises(flds) == flds # <<>> /\ ~AllStrings(flds)

\* _format_fields: the comma-separated string handed to the provider
format_fields(flds, default_fields) ==
    IF flds = <<>> THEN Join(default_fields)
    ELSE Join([i \in DOMAIN flds |-> flds[i].v])

\* the test on a non-success status: message pattern or sentinel code
IsNotFound(code, msg) == Contains(Lower(msg), NoRecordPattern) \/ code = "10002"

\* the error a method raises on a non-success status
StatusError(m, code, msg) ==
    IF m = "get_trade_dates" THEN Exc("DataSourceError", "api_error")
    ELSE IF IsNotFound(code, msg) THEN Exc("NoDataFoundError", "provider_message")
    ELSE Exc("DataSourceError", "api_error")

\* pd.DataFrame(data_list, columns=rs.fields)
DataFrame(data, columns) == [columns |-> columns, rows |-> data]

IndexOf(s, x) == CHOOSE i \in DOMAIN s : s[i] = x

\* [col for col in fields if col in result_df.columns]
InColumns(e, columns) == e.isStr /\ e.v \in Range(columns)
AvailableCols(flds, columns) ==
    LET kept == SelectSeq(flds, LAMBDA e : InColumns(e, columns))
    IN  [i \in DOMAIN kept |-> kept[i].v]

\* result_df[available_cols]
SelectColumns(df, cols) ==
    [columns |-> cols,
     rows |-> [r \in DOMAIN df.rows |->
                 [i \in DOMAIN cols |-> df.rows[r][IndexOf(df.columns, cols[i])]]]]

\* the body of the with-block after the cursor is drained
AssembleResult(m, flds, columns, data) ==
    IF data = <<>> THEN Raised(Exc("NoDataFoundError", "empty_result"))
    ELSE LET result_df == DataFrame(data, columns)
         IN  IF m = "get_stock_basic_info" /\ flds # <<>>
             THEN IF AvailableCols(flds, columns) = <<>>
                  THEN Raised(Exc("ValueError", "fields_unavailable"))
                  ELSE Returned(SelectColumns(result_df, AvailableCols(flds, columns)))
             ELSE Returned(result_df)

\* A handler that lets every exception through as it is.
Handler_NoWrap(exc) == exc

\* the except clauses around every fetch
Handler(exc) ==
    IF exc.type \in {"LoginError", "NoDataFoundError", "DataSourceError", "ValueError"}
    THEN exc
    ELSE Exc("DataSourceError", "unknown_error")

\* how the call ends once the with-block is left with bodyOutcome b
CallOutcome(b) == IF b.status = "raised" THEN Raised(Handler(b.exc)) ELSE b

\* the field argument of the provider query
QueryFieldArg(m, flds) ==
    IF m = "get_historical_k_data" THEN format_fields(flds, DEFAULT_K_FIELDS) ELSE <<>>

\* ------------------------------------------------------------- code: steps
\* A caller invokes a facade method.
Invoke ==
    /\ pc = "idle"
    /\ \E m \in Methods :
         /\ method' = m
         /\ \E y \in (IF m \in FinancialMethods THEN Years ELSE {NoYear}) : year' = y
         /\ \E q \in (IF m \in FinancialMethods THEN Quarters ELSE NoQuarter) : quarter' = q
         /\ \E f \in (IF m \in FieldMethods THEN FieldLists ELSE {<<>>}) : fields' = f
    /\ pc' = "called"
    /\ UNCHANGED <<fd1, saved_stdout_fd, lg, lo, rs, queryArg, data_list, bodyOutcome, outcome, log>>

\* A fetch whose row list outlives the call (a list shared between calls).
Return_KeepRows ==
    /\ pc = "done"
    /\ pc' = "idle"
    /\ method' = "none"
    /\ year' = NoYear
    /\ quarter' \in NoQuarter
    /\ fields' = <<>>
    /\ saved_stdout_fd' = "closed"
    /\ lg' = "none"
    /\ lo' = "none"
    /\ rs' = NoCursor
    /\ queryArg' = <<>>
    /\ data_list' = data_list
    /\ bodyOutcome' = Pending
    /\ outcome' = Pending
    /\ log' = <<>>
    /\ UNCHANGED fd1

\* The call is over: the caller has the outcome and the call's locals are gone
\* (a descriptor the guard did not close stays open, unreachable).
Return ==
    /\ pc = "done"
    /\ pc' = "idle"
    /\ method' = "none"
    /\ year' = NoYear
    /\ quarter' \in NoQuarter
    /\ fields' = <<>>
    /\ saved_stdout_fd' = "closed"
    /\ lg' = "none"
    /\ lo' = "none"
    /\ rs' = NoCursor
    /\ queryArg' = <<>>
    /\ data_list' = <<>>
    /\ bodyOutcome' = Pending
    /\ outcome' = Pending
    /\ log' = <<>>
    /\ UNCHANGED fd1

\* get_historical_k_data: _format_fields raises before the guard is entered.
RejectFields ==
    /\ pc = "called"
    /\ method = "get_historical_k_data"
    /\ format_fields_raises(fields)
    /\ outcome' = Raised(Handler(Exc("ValueError", "fields_not_strings")))
    /\ pc' = "done"
    /\ UNCHANGED <<callVars, fd1, saved_stdout_fd, lg, lo, rs, queryArg, data_list, bodyOutcome, log>>

\* The guard is entered: stdout is saved and pointed at the null device, bs.login() is called.
LoginBegin ==
    /\ pc = "called"
    /\ ~(method = "get_historical_k_data" /\ format_fields_raises(fields))
    /\ saved_stdout_fd' = fd1
    /\ fd1' = "null"
    /\ log' = Append(log, "login")
    /\ pc' = "login"
    /\ UNCHANGED <<callVars, lg, lo, rs, queryArg, data_list, bodyOutcome, outcome>>

\* A guard that does not test the login result: the body runs after a failed login.
LoginReturn_NoCheck ==
    /\ pc = "login"
    /\ \E code \in StatusCodes : lg' = code
    /\ pc' = "body"
    /\ log' = Append(log, "body_start")
    /\ fd1' = saved_stdout_fd
    /\ saved_stdout_fd' = "closed"
    /\ UNCHANGED <<callVars, lo, rs, queryArg, data_list, bodyOutcome, outcome>>

\* A guard that tries bs.login() again after a failed login.
LoginReturn_Retry ==
    /\ pc = "login"
    /\ \E code \in StatusCodes :
         /\ lg' = code
         /\ IF code # "0"
            THEN /\ outcome' = outcome
                 /\ pc' = "called"
                 /\ log' = log
            ELSE /\ outcome' = outcome
                 /\ pc' = "body"
                 /\ log' = Append(log, "body_start")
    /\ fd1' = saved_stdout_fd
    /\ saved_stdout_fd' = "closed"
    /\ UNCHANGED <<callVars, lo, rs, queryArg, data_list, bodyOutcome>>

\* bs.login() returns: stdout is restored, then the code is tested.
LoginReturn ==
    /\ pc = "login"
    /\ \E code \in StatusCodes :
         /\ lg' = code
         /\ IF code # "0"
            THEN /\ outcome' = Raised(Handler(Exc("LoginError", "login_failed")))
                 /\ pc' = "done"
                 /\ log' = log
            ELSE /\ outcome' = outcome
                 /\ pc' = "body"
                 /\ log' = Append(log, "body_start")
    /\ fd1' = saved_stdout_fd
    /\ saved_stdout_fd' = "closed"
    /\ UNCHANGED <<callVars, lo, rs, queryArg, data_list, bodyOutcome>>

\* bs.login() raises: nothing after the call runs, the exception reaches the fetch's handler.
LoginRaise ==
    /\ pc = "login"
    /\ lg' = "raised"
    /\ outcome' = Raised(Handler(Exc("Other", "login_raised")))
    /\ pc' = "done"
    /\ UNCHANGED <<callVars, fd1, saved_stdout_fd, lo, rs, queryArg, data_list, bodyOutcome, log>>

\* The body calls the provider query; a non-success status is classified and raised.
Query ==
    /\ pc = "body"
    /\ queryArg' = QueryFieldArg(method, fields)
    /\ \E code \in StatusCodes, msg \in Messages :
         IF code # "0"
         THEN /\ rs' = [error_code |-> code, error_msg |-> msg, fields |-> <<>>, rows |-> <<>>]
              /\ bodyOutcome' = Raised(StatusError(method, code, msg))
              /\ pc' = "body_end"
              /\ log' = log \o <<"query", "body_end">>
         ELSE /\ \E flds \in ProviderFields(method), n \in 0..MaxRows :
                   rs' = [error_code |-> code, error_msg |-> msg, fields |-> flds,
                          rows |-> ProviderRows(n, flds)]
              /\ bodyOutcome' = bodyOutcome
              /\ pc' = "drain"
              /\ log' = Append(log, "query")
    /\ UNCHANGED <<callVars, fd1, saved_stdout_fd, lg, lo, data_list, outcome>>

\* The provider query raises.
QueryRaise ==
    /\ pc = "body"
    /\ queryArg' = QueryFieldArg(method, fields)
    /\ bodyOutcome' = Raised(Exc("Other", "query_raised"))
    /\ pc' = "body_end"
    /\ log' = log \o <<"query", "body_end">>
    /\ UNCHANGED <<callVars, fd1, saved_stdout_fd, lg, lo, rs, data_list, outcome>>

\* while rs.next(): data_list.append(rs.get_row_data())
DrainRow ==
    /\ pc = "drain"
    /\ rs.rows # <<>>
    /\ data_list' = Append(data_list, Head(rs.rows))
    /\ rs' = [rs EXCEPT !.rows = Tail(rs.rows)]
    /\ UNCHANGED <<callVars, pc, fd1, saved_stdout_fd, lg, lo, queryArg, bodyOutcome, outcome, log>>

\* The cursor raises while it is drained.
DrainRaise ==
    /\ pc = "drain"
    /\ bodyOutcome' = Raised(Exc("Other", "cursor_raised"))
    /\ pc' = "body_end"
    /\ log' = Append(log, "body_end")
    /\ UNCHANGED <<callVars, fd1, saved_stdout_fd, lg, lo, rs, queryArg, data_list, outcome>>

\* rs.next() is false: the empty check, the DataFrame and the column selection.
Assemble ==
    /\ pc = "drain"
    /\ rs.rows = <<>>
    /\ bodyOutcome' = AssembleResult(method, fields, rs.fields, data_list)
    /\ pc' = "body_end"
    /\ log' = Append(log, "body_end")
    /\ UNCHANGED <<callVars, fd1, saved_stdout_fd, lg, lo, rs, queryArg, data_list, outcome>>

\* A guard without finally: a body that raises leaves the guard with no logout.
LogoutBegin_SkipOnRaise ==
    /\ pc = "body_end"
    /\ IF bodyOutcome.status = "raised"
       THEN /\ outcome' = CallOutcome(bodyOutcome)
            /\ pc' = "done"
            /\ UNCHANGED <<fd1, saved_stdout_fd, log>>
       ELSE /\ saved_stdout_fd' = fd1
            /\ fd1' = "null"
            /\ log' = Append(log, "logout")
            /\ pc' = "logout"
            /\ outcome' = outcome
    /\ UNCHANGED <<callVars, lg, lo, rs, queryArg, data_list, bodyOutcome>>

\* finally: stdout is saved and pointed at the null device, bs.logout() is called.
LogoutBegin ==
    /\ pc = "body_end"
    /\ saved_stdout_fd' = fd1
    /\ fd1' = "null"
    /\ log' = Append(log, "logout")
    /\ pc' = "logout"
    /\ UNCHANGED <<callVars, lg, lo, rs, queryArg, data_list, bodyOutcome, outcome>>

\* bs.logout() returns: stdout is restored and the body's outcome leaves the with-block.
LogoutReturn ==
    /\ pc = "logout"
    /\ fd1' = saved_stdout_fd
    /\ saved_stdout_fd' = "closed"
    /\ lo' = "returned"
    /\ outcome' = CallOutcome(bodyOutcome)
    /\ pc' = "done"
    /\ UNCHANGED <<callVars, lg, rs, queryArg, data_list, bodyOutcome, log>>

\* bs.logout() raises inside finally: the exception replaces the body's outcome.
LogoutRaise ==
    /\ pc = "logout"
    /\ lo' = "raised"
    /\ outcome' = Raised(Handler(Exc("Other", "logout_raised")))
    /\ pc' = "done"
    /\ UNCHANGED <<callVars, fd1, saved_stdout_fd, lg, rs, queryArg, data_list, bodyOutcome, log>>

\* What the provider did in the call that has just ended: the results of
\* bs.login() and bs.logout(), the status, field list and row count of the
\* cursor, and where it raised.
ProviderRaised ==
    IF bodyOutcome.status = "raised" /\ bodyOutcome.exc.type = "Other"
    THEN bodyOutcome.exc.tag ELSE "none"
ProviderDid ==
    [lg |-> lg, lo |-> lo, error_code |-> rs.error_code, error_msg |-> rs.error_msg,
     fields |-> rs.fields, given |-> {Len(data_list) + Len(rs.rows)},
     left |-> {Len(rs.rows)}, raised |-> ProviderRaised]
Snapshot ==
    [set |-> TRUE, call |-> callVars, did |-> ProviderDid, outcome |-> outcome, log |-> log]

\* A step of the second call of a pair: the caller repeats the first call's
\* arguments and the provider repeats what it did in the first call.
Replays ==
    prev.set =>
      /\ pc = "idle" => callVars' = prev.call
      /\ lg' # "none" => lg' = prev.did.lg
      /\ lo' # "none" => lo' = prev.did.lo
      /\ (pc = "body" /\ rs' # NoCursor) =>
            /\ rs'.error_code = prev.did.error_code
            /\ rs'.error_msg = prev.did.error_msg
            /\ rs'.fields = prev.did.fields
            /\ Len(rs'.rows) \in prev.did.given
      /\ (pc = "body" /\ rs' = NoCursor) => prev.did.raised = "query_raised"
      /\ (pc = "drain" /\ pc' = "body_end") =>
            /\ Len(rs.rows) \in prev.did.left
            /\ (bodyOutcome' = Raised(Exc("Other", "cursor_raised")))
                  <=> (prev.did.raised = "cursor_raised")

Next ==
    \/ Invoke /\ UNCHANGED <<prev, notData>>
    \/ RejectFields /\ UNCHANGED <<prev, notData>>
    \/ LoginBegin /\ UNCHANGED <<prev, notData>>
    \/ LoginReturn /\ UNCHANGED <<prev, notData>>
    \/ LoginRaise /\ UNCHANGED <<prev, notData>>
    \/ Query /\ UNCHANGED <<prev, notData>>
    \/ QueryRaise /\ UNCHANGED <<prev, notData>>
    \/ DrainRow /\ UNCHANGED <<prev, notData>>
    \/ DrainRaise /\ UNCHANGED <<prev, notData>>
    \/ Assemble /\ UNCHANGED <<prev, notData>>
    \/ LogoutBegin /\ UNCHANGED <<prev, notData>>
    \/ LogoutReturn /\ UNCHANGED <<prev, notData>>
    \/ LogoutRaise /\ UNCHANGED <<prev, notData>>
    \/ Return /\ UNCHANGED <<prev, notData>>

\* Pairs of calls: the first call is any call, the second repeats it.
PairNext ==
    \/ Invoke /\ Replays /\ UNCHANGED <<prev, notData>>
    \/ RejectFields /\ Replays /\ UNCHANGED <<prev, notData>>
    \/ LoginBegin /\ Replays /\ UNCHANGED <<prev, notData>>
    \/ LoginReturn /\ Replays /\ UNCHANGED <<prev, notData>>
    \/ LoginRaise /\ Replays /\ UNCHANGED <<prev, notData>>
    \/ Query /\ Replays /\ UNCHANGED <<prev, notData>>
    \/ QueryRaise /\ Replays /\ UNCHANGED <<prev, notData>>
    \/ DrainRow /\ Replays /\ UNCHANGED <<prev, notData>>
    \/ DrainRaise /\ Replays /\ UNCHANGED <<prev, notData>>
    \/ Assemble /\ Replays /\ UNCHANGED <<prev, notData>>
    \/ LogoutBegin /\ Replays /\ UNCHANGED <<prev, notData>>
    \/ LogoutReturn /\ Replays /\ UNCHANGED <<prev, notData>>
    \/ LogoutRaise /\ Replays /\ UNCHANGED <<prev, notData>>
    \/ Return /\ prev' = (IF prev.set THEN NoPrev ELSE Snapshot) /\ UNCHANGED notData

Spec == Init /\ [][Next]_vars

PairSpec == Init /\ [][PairNext]_vars

\* ------------------------------------------------------------- calendar tools
\* bs.query_trade_dates(start_date, end_date): one row per day of the range
\* the provider has data for, each with its trading-day flag.
RECURSIVE DaysFromTo(_, _)
DaysFromTo(a, b) ==
    IF DateBefore(b, a) THEN <<>> ELSE <<a>> \o DaysFromTo(NextDay(a), b)
Reverse(s) == [i \in DOMAIN s |-> s[Len(s) + 1 - i]]
TradeDateFields == <<"calendar_date", "is_trading_day">>
TradeDateRows(start, end, cal) ==
    LET known == SelectSeq(DaysFromTo(strptime(start), strptime(end)),
                           LAMBDA t : DateNotAfter(t, cal.until))
        rows == [i \in DOMAIN known |->
                   <<strftime(known[i]), IF known[i] \in cal.days THEN "1" ELSE "0">>]
    IN  IF cal.descending THEN Reverse(rows) ELSE rows

\* get_trade_dates when login, query, cursor and logout all return: a range
\* the provider cannot read is a non-success status, an empty range is NoData.
get_trade_dates(start, end, cal) ==
    IF strptime_raises(start) \/ strptime_raises(end)
    THEN Raised(StatusError("get_trade_dates", "10004", MsgNetwork))
    ELSE CallOutcome(AssembleResult("get_trade_dates", <<>>, TradeDateFields,
                                    TradeDateRows(start, end, cal)))
\* get_trade_dates when the session or the provider fails
TradeDatesFailures ==
    {Raised(Exc("LoginError", "login_failed")),
     Raised(StatusError("get_trade_dates", "10004", MsgNetwork)),
     Raised(Handler(Exc("Other", "query_raised")))}

\* f"<error prefix>{e}"
ErrorText(exc) == <<"error: ", exc.tag>>

\* df['calendar_date'], df['is_trading_day'] of a row
Cell(frame, row, col) == row[IndexOf(frame.columns, col)]
\* the column named col when the frame has it, else the fallback column
ColumnOr(frame, col, fallback) ==
    IF col \in Range(frame.columns) THEN col ELSE frame.columns[fallback]

\* the comparison mutated for C19
OnOrBefore_Always(dstr, today_str) == TRUE
\* dstr <= today
OnOrBefore(dstr, today_str) == StrLeq(dstr, today_str)

\* for dstr in valid_trading_days: keep the largest one not after today
RECURSIVE LatestLoop(_, _, _)
LatestLoop(valid, today_str, latest) ==
    IF valid = <<>> THEN latest
    ELSE LatestLoop(Tail(valid), today_str,
                    IF OnOrBefore(Head(valid), today_str)
                       /\ (latest = <<>> \/ StrLess(latest, Head(valid)))
                    THEN Head(valid) ELSE latest)

get_latest_trading_date(now, o) ==
    IF o.status = "raised" THEN Answer(strftime(now))
    ELSE LET flagged == SelectSeq(o.value.rows,
                           LAMBDA r : Cell(o.value, r, "is_trading_day") = "1")
             valid_trading_days == [i \in DOMAIN flagged |->
                                      Cell(o.value, flagged[i], "calendar_date")]
             latest == LatestLoop(valid_trading_days, strftime(now), <<>>)
         IN  Answer(IF latest = <<>> THEN strftime(now) ELSE latest)

is_trading_day(d, o) ==
    IF o.status = "raised" THEN Answer(ErrorText(o.exc))
    ELSE IF o.value.rows = <<>> THEN Answer(AnswerNo)
    ELSE LET flag_col == ColumnOr(o.value, "is_trading_day", Len(o.value.columns))
         IN  Answer(IF Cell(o.value, o.value.rows[1], flag_col) = "1"
                    THEN AnswerYes ELSE AnswerNo)

\* the sort mutated for C17
sort_values_None(rows, k) == rows
\* candidates.sort_values(by=day_col): rows in ascending order of column k
RECURSIVE sort_values(_, _)
sort_values(rows, k) ==
    IF rows = <<>> THEN <<>>
    ELSE LET rest == sort_values(Tail(rows), k)
             before == SelectSeq(rest, LAMBDA r : StrLess(r[k], Head(rows)[k]))
             after == SelectSeq(rest, LAMBDA r : ~StrLess(r[k], Head(rows)[k]))
         IN  before \o <<Head(rows)>> \o after

previous_trading_day(d, o) ==
    IF o.status = "raised" THEN Answer(ErrorText(o.exc))
    ELSE IF o.value.rows = <<>> THEN Answer(d)
    ELSE LET flag_col == ColumnOr(o.value, "is_trading_day", Len(o.value.columns))
             day_col == ColumnOr(o.value, "calendar_date", 1)
             candidates == sort_values(
                 SelectSeq(o.value.rows,
                           LAMBDA r : Cell(o.value, r, flag_col) = "1"
                                      /\ StrLess(Cell(o.value, r, day_col), d)),
                 IndexOf(o.value.columns, day_col))
         IN  IF candidates = <<>> THEN Answer(d)
             ELSE Answer(Cell(o.value, candidates[Len(candidates)], day_col))

next_trading_day(d, o) ==
    IF o.status = "raised" THEN Answer(ErrorText(o.exc))
    ELSE IF o.value.rows = <<>> THEN Answer(d)
    ELSE LET flag_col == ColumnOr(o.value, "is_trading_day", Len(o.value.columns))
             day_col == ColumnOr(o.value, "calendar_date", 1)
             candidates == sort_values(
                 SelectSeq(o.value.rows,
                           LAMBDA r : Cell(o.value, r, flag_col) = "1"
                                      /\ StrLess(d, Cell(o.value, r, day_col))),
                 IndexOf(o.value.columns, day_col))
         IN  IF candidates = <<>> THEN Answer(d)
             ELSE Answer(Cell(o.value, candidates[1], day_col))

\* A next_trading_day that looks one day ahead.
AskedRange_OneDay(t, now, d) ==
    CASE t = "get_latest_trading_date" ->
           <<strftime(Date(now.y, now.m, 1)), strftime(Date(now.y, now.m, 28))>>
      [] t = "is_trading_day" -> <<d, d>>
      [] t = "previous_trading_day" -> <<strftime(AddDays(strptime(d), 0 - 30)), d>>
      [] t = "next_trading_day" -> <<d, strftime(AddDays(strptime(d), 1))>>

\* start_date and end_date of the tool's get_trade_dates call
AskedRange(t, now, d) ==
    CASE t = "get_latest_trading_date" ->
           <<strftime(Date(now.y, now.m, 1)), strftime(Date(now.y, now.m, 28))>>
      [] t = "is_trading_day" -> <<d, d>>
      [] t = "previous_trading_day" -> <<strftime(AddDays(strptime(d), 0 - 30)), d>>
      [] t = "next_trading_day" -> <<d, strftime(AddDays(strptime(d), 30))>>

ToolResult(t, now, d, o) ==
    CASE t = "get_latest_trading_date" -> get_latest_trading_date(now, o)
      [] t = "is_trading_day" -> is_trading_day(d, o)
      [] t = "previous_trading_day" -> previous_trading_day(d, o)
      [] t = "next_trading_day" -> next_trading_day(d, o)

\* the tools that parse their date argument before the facade call
ParsingTools == {"previous_trading_day", "next_trading_day"}

\* A calendar tool is called, on some day, against some provider calendar.
ToolCall ==
    /\ tpc = "idle"
    /\ \E t \in CalendarTools :
         /\ tool' = t
         /\ \E n \in (IF t = "get_latest_trading_date" THEN Todays ELSE {NoDate}) : today' = n
         /\ \E d \in (IF t = "get_latest_trading_date" THEN {<<>>} ELSE DateArgs) : date' = d
    /\ calendar' \in Calendars
    /\ tpc' = "entered"
    /\ UNCHANGED <<asked, dates_df, result, first, dataVars>>

\* datetime.strptime(date, "%Y-%m-%d") raises: the except clause answers.
ParseRaises ==
    /\ tpc = "entered"
    /\ tool \in ParsingTools
    /\ strptime_raises(date)
    /\ result' = Answer(ErrorText(Exc("ValueError", "bad_date")))
    /\ tpc' = "done"
    /\ UNCHANGED <<tool, today, date, calendar, asked, dates_df, first, dataVars>>

\* active_data_source.get_trade_dates(...) is served by the provider.
FacadeReturns ==
    /\ tpc = "entered"
    /\ ~(tool \in ParsingTools /\ strptime_raises(date))
    /\ asked' = AskedRange(tool, today, date)
    /\ dates_df' = get_trade_dates(asked'[1], asked'[2], calendar)
    /\ tpc' = "fetched"
    /\ UNCHANGED <<tool, today, date, calendar, result, first, dataVars>>

\* active_data_source.get_trade_dates(...) fails in the session or the provider.
FacadeFails ==
    /\ tpc = "entered"
    /\ ~(tool \in ParsingTools /\ strptime_raises(date))
    /\ asked' = AskedRange(tool, today, date)
    /\ dates_df' \in TradeDatesFailures
    /\ tpc' = "fetched"
    /\ UNCHANGED <<tool, today, date, calendar, result, first, dataVars>>

\* The rest of the tool: its answer from the frame, or its except clause.
ToolFinish ==
    /\ tpc = "fetched"
    /\ result' = ToolResult(tool, today, date, dates_df)
    /\ tpc' = "done"
    /\ UNCHANGED <<tool, today, date, calendar, asked, dates_df, first, dataVars>>

\* the tool that undoes tool t
Opposite(t) == IF t = "previous_trading_day" THEN "next_trading_day" ELSE "previous_trading_day"

\* The caller passes the day previous_trading_day (next_trading_day) answered
\* to next_trading_day (previous_trading_day), against the same calendar.
ToolChain ==
    /\ tpc = "done"
    /\ tool \in ParsingTools
    /\ first = NoFirst
    /\ result.status = "returned"
    /\ first' = [tool |-> tool, date |-> date, dates_df |-> dates_df, result |-> result]
    /\ tool' = Opposite(tool)
    /\ date' = result.value
    /\ asked' = <<>>
    /\ dates_df' = Pending
    /\ result' = NoResult
    /\ tpc' = "entered"
    /\ UNCHANGED <<today, calendar, dataVars>>

\* The caller has the answer.
ToolReturn ==
    /\ tpc = "done"
    /\ tpc' = "idle"
    /\ tool' = "none"
    /\ today' = NoDate
    /\ date' = <<>>
    /\ calendar' = NoCalendar
    /\ asked' = <<>>
    /\ dates_df' = Pending
    /\ result' = NoResult
    /\ first' = NoFirst
    /\ UNCHANGED dataVars

CalendarNext ==
    \/ ToolCall /\ UNCHANGED notCalendar
    \/ ParseRaises /\ UNCHANGED notCalendar
    \/ FacadeReturns /\ UNCHANGED notCalendar
    \/ FacadeFails /\ UNCHANGED notCalendar
    \/ ToolFinish /\ UNCHANGED notCalendar
    \/ ToolChain /\ UNCHANGED notCalendar
    \/ ToolReturn /\ UNCHANGED notCalendar

CalendarSpec == Init /\ [][CalendarNext]_vars

\* ------------------------------------------------------------- analysis timeframe
\* datetime(y, m, d) raises ValueError when y, m, d name no day
datetime_raises(y, m, d) ==
    y \notin 1..9999 \/ m \notin 1..12 \/ d \notin 1..DaysInMonth(y, m)
StartMiddle(s, m) == [start_date |-> s, middle_date |-> m]

\* a "recent" branch with no day-15 cutoff
RecentDates_NoCutoff(now) ==
    IF now.m = 1 THEN StartMiddle(Date(now.y - 1, 12, 1), Date(now.y - 1, 12, 1))
    ELSE StartMiddle(Date(now.y, now.m - 1, 1), Date(now.y, now.m - 1, 1))
\* period == "recent"
RecentDates(now) ==
    IF now.d < 15
    THEN IF now.m = 1 THEN StartMiddle(Date(now.y - 1, 11, 1), Date(now.y - 1, 12, 1))
         ELSE IF now.m = 2 THEN StartMiddle(Date(now.y, 1, 1), Date(now.y, 1, 1))
         ELSE StartMiddle(Date(now.y, now.m - 2, 1), Date(now.y, now.m - 1, 1))
    ELSE IF now.m = 1 THEN StartMiddle(Date(now.y - 1, 12, 1), Date(now.y - 1, 12, 1))
         ELSE StartMiddle(Date(now.y, now.m - 1, 1), Date(now.y, now.m - 1, 1))

\* a "quarter" branch that steps back three months inside the year only
QuarterDates_NoWrap(now) ==
    StartMiddle(Date(now.y, now.m - 3, 1), Date(now.y, now.m - 3, 1))
\* period == "quarter"
QuarterDates(now) ==
    LET s == IF now.m <= 3 THEN Date(now.y - 1, now.m + 9, 1)
             ELSE Date(now.y, now.m - 3, 1)
    IN  StartMiddle(s, s)

\* period == "half_year"
HalfYearDates(now) ==
    LET s == IF now.m <= 6 THEN Date(now.y - 1, now.m + 6, 1)
             ELSE Date(now.y, now.m - 6, 1)
    IN  StartMiddle(s, IF s.m <= 9 THEN Date(s.y, s.m + 3, 1)
                       ELSE Date(s.y + 1, s.m - 9, 1))

\* period == "year"
YearDates(now) ==
    LET s == Date(now.y - 1, now.m, 1)
    IN  StartMiddle(s, IF s.m <= 6 THEN Date(s.y, s.m + 6, 1)
                       ELSE Date(s.y + 1, s.m - 6, 1))

\* any other keyword
OtherDates(now) ==
    LET s == IF now.m = 1 THEN Date(now.y - 1, 12, 1) ELSE Date(now.y, now.m - 1, 1)
    IN  StartMiddle(s, s)

FrameDates(p, now) ==
    CASE p = "recent" -> RecentDates(now)
      [] p = "quarter" -> QuarterDates(now)
      [] p = "half_year" -> HalfYearDates(now)
      [] p = "year" -> YearDates(now)
      [] OTHER -> OtherDates(now)

\* calendar.monthrange(year, month)[1]
get_month_end_day(y, m) == DaysInMonth(y, m)
\* an end day that takes every month to be as long as January
EndDay_LongMonth(end_date) == get_month_end_day(end_date.y, 1)
\* min(get_month_end_day(end_date.year, end_date.month), end_date.day)
EndDay(end_date) ==
    IF get_month_end_day(end_date.y, end_date.m) < end_date.d
    THEN get_month_end_day(end_date.y, end_date.m) ELSE end_date.d

\* f"{n}" of a positive integer
RECURSIVE Decimal(_)
Decimal(n) == IF n < 10 THEN <<DigitChar(n)>> ELSE Decimal(n \div 10) \o <<DigitChar(n % 10)>>

\* the label: year and months of the range (the source's year and month marks
\* are written "y" and "m")
DateRange(s, m, e) ==
    IF s.y # e.y
    THEN Decimal(s.y) \o <<"y">> \o Decimal(s.m) \o <<"m", "-">>
         \o Decimal(e.y) \o <<"y">> \o Decimal(e.m) \o <<"m">>
    ELSE IF m.m # s.m /\ m.m # e.m
    THEN Decimal(s.y) \o <<"y">> \o Decimal(s.m) \o <<"m", "-">>
         \o Decimal(m.m) \o <<"m", "-">> \o Decimal(e.m) \o <<"m">>
    ELSE IF s.m # e.m
    THEN Decimal(s.y) \o <<"y">> \o Decimal(s.m) \o <<"m", "-">> \o Decimal(e.m) \o <<"m">>
    ELSE Decimal(s.y) \o <<"y">> \o Decimal(s.m) \o <<"m">>

get_market_analysis_timeframe(p, now) ==
    LET dates == FrameDates(p, now)
        s == dates.start_date
        m == dates.middle_date
    IN  IF datetime_raises(s.y, s.m, s.d) \/ datetime_raises(m.y, m.m, m.d)
        THEN [NoFrame EXCEPT !.raised = TRUE]
        ELSE [raised |-> FALSE, start_date |-> s, middle_date |-> m, end_date |-> now,
              start_iso_date |-> Decimal(s.y) \o <<"-">> \o Pad2(s.m) \o <<"-", "0", "1">>,
              end_iso_date |-> Decimal(now.y) \o <<"-">> \o Pad2(now.m)
                               \o <<"-">> \o Pad2(EndDay(now))]
\* f"{date_range} (ISO: {start_iso_date} to {end_iso_date})"
FrameText(f) ==
    DateRange(f.start_date, f.middle_date, f.end_date)
    \o <<" (ISO: ">> \o f.start_iso_date \o <<" to ">> \o f.end_iso_date \o <<")">>
ToolRaised == [status |-> "raised", value |-> <<>>]

\* get_market_analysis_timeframe is called on some day with some keyword.
FrameCall ==
    /\ tpc = "idle"
    /\ tool' = "get_market_analysis_timeframe"
    /\ today' \in FrameDays
    /\ period' \in Periods
    /\ tpc' = "entered"
    /\ UNCHANGED <<date, calendar, asked, dates_df, result, timeframe, first, dataVars>>

\* The body of the tool: the dates, the two ISO strings, the label.
FrameFinish ==
    /\ tpc = "entered"
    /\ tool = "get_market_analysis_timeframe"
    /\ timeframe' = get_market_analysis_timeframe(period, today)
    /\ result' = IF timeframe'.raised THEN ToolRaised ELSE Answer(FrameText(timeframe'))
    /\ tpc' = "done"
    /\ UNCHANGED <<tool, today, period, date, calendar, asked, dates_df, first, dataVars>>

\* The caller has the label.
FrameReturn ==
    /\ tpc = "done"
    /\ tool = "get_market_analysis_timeframe"
    /\ tpc' = "idle"
    /\ tool' = "none"
    /\ today' = NoDate
    /\ period' = "none"
    /\ timeframe' = NoFrame
    /\ result' = NoResult
    /\ UNCHANGED <<date, calendar, asked, dates_df, first, dataVars>>

FrameNext ==
    \/ FrameCall /\ UNCHANGED notFrame
    \/ FrameFinish /\ UNCHANGED notFrame
    \/ FrameReturn /\ UNCHANGED notFrame

FrameSpec == Init /\ [][FrameNext]_vars

\* ------------------------------------------------------------- tool wrappers
\* str.isdigit()
isdigit(str) == Len(str) > 0 /\ \A i \in DOMAIN str : IsDigitChar(str[i])
\* str.strip(): the blanks at both ends removed
RECURSIVE strip(_)
strip(str) ==
    IF str = <<>> THEN <<>>
    ELSE IF Head(str) = " " THEN strip(Tail(str))
    ELSE IF str[Len(str)] = " " THEN strip(SubSeq(str, 1, Len(str) - 1))
    ELSE str
\* key = (index or "").strip().lower()
IndexKey(index) == Lower(strip(index))
ValidFreqs == {"d", "w", "m", "5", "15", "30", "60"}
ValidAdjusts == {"1", "2", "3"}
ValidIndexKeys == {<<"h", "s", "3", "0", "0">>, <<"s", "z", "5", "0">>, <<"z", "z", "5", "0", "0">>}

\* A tool that checks nothing.
Rejection_None(w, a) == <<>>

\* the error string of the argument checks of tool w, <<>> when they all pass
Rejection(w, a) ==
    CASE w \in FinancialTools ->
            IF ~isdigit(a.year) \/ Len(a.year) # 4 THEN <<"error: ", "invalid year ", a.year>>
            ELSE IF ~(1 <= a.quarter /\ a.quarter <= 4)
                 THEN <<"error: ", "invalid quarter ", a.quarter>>
            ELSE <<>>
      [] w = "get_historical_k_data" ->
            IF a.frequency \notin ValidFreqs
            THEN <<"error: ", "invalid frequency ", a.frequency>>
            ELSE IF a.adjust_flag \notin ValidAdjusts
                 THEN <<"error: ", "invalid adjust flag ", a.adjust_flag>>
            ELSE <<>>
      [] w = "get_dividend_data" ->
            IF a.year_type \notin {"report", "operate"}
            THEN <<"error: ", "invalid year type ", a.year_type>>
            ELSE IF ~isdigit(a.year) \/ Len(a.year) # 4
                 THEN <<"error: ", "invalid year ", a.year>>
            ELSE <<>>
      [] w = "get_index_constituents" ->
            IF IndexKey(a.index) \notin ValidIndexKeys THEN <<"error: ", "invalid index">>
            ELSE <<>>
      [] w = "get_required_reserve_ratio_data" ->
            IF a.year_type \notin {"0", "1"} THEN <<"error: ", "invalid year type {year_type}">>
            ELSE <<>>
      [] w = "search_stocks" ->
            IF a.keyword = <<>> \/ strip(a.keyword) = <<>>
            THEN <<"error: ", "keyword is required">>
            ELSE <<>>
      [] OTHER -> <<>>

\* the parameters of the facade methods
FacadeParams(m) ==
    CASE m \in FinancialMethods -> {"code", "year", "quarter"}
      [] m = "get_historical_k_data" ->
            {"code", "start_date", "end_date", "frequency", "adjust_flag", "fields"}
      [] m = "get_dividend_data" -> {"code", "year", "year_type"}
      [] m \in {"get_performance_express_report", "get_forecast_report"} ->
            {"code", "start_date", "end_date"}
      [] m = "get_stock_industry" -> {"code", "date"}
      [] m \in IndexMethods \cup {"get_all_stock"} -> {"date"}
      [] m = "get_required_reserve_ratio_data" -> {"start_date", "end_date", "year_type"}
      [] OTHER -> {"start_date", "end_date"}

\* the facade method tool w invokes
FacadeMethod(w, a) ==
    CASE w = "get_index_constituents" ->
            IF IndexKey(a.index) = <<"h", "s", "3", "0", "0">> THEN "get_hs300_stocks"
            ELSE IF IndexKey(a.index) = <<"s", "z", "5", "0">> THEN "get_sz50_stocks"
            ELSE "get_zz500_stocks"
      [] w = "search_stocks" -> "get_all_stock"
      [] OTHER -> w

\* the keyword arguments tool w passes, as name and value; the arguments the
\* tools hand on unchecked are the value "given"
FacadeKeywords(w, a) ==
    CASE w \in FinancialTools ->
            {<<"code", "given">>, <<"year", a.year>>, <<"quarter", a.quarter>>}
      [] w = "get_historical_k_data" ->
            {<<"code", "given">>, <<"start_date", "given">>, <<"end_date", "given">>,
             <<"frequency", a.frequency>>, <<"adjust_flag", a.adjust_flag>>,
             <<"fields", "given">>}
      [] w = "get_dividend_data" ->
            {<<"code", "given">>, <<"year", a.year>>, <<"year_type", a.year_type>>}
      [] w = "get_performance_express_report" ->
            {<<"code", "given">>, <<"start_date", "given">>, <<"end_date", "given">>}
      [] w = "get_stock_industry" -> {<<"code", "given">>, <<"date", "given">>}
      [] w \in ConstituentTools \cup {"get_index_constituents", "search_stocks"} ->
            {<<"date", "given">>}
      [] w = "get_required_reserve_ratio_data" ->
            {<<"start_date", "given">>, <<"end_date", "given">>,
             <<"yearType", a.year_type>>}
      [] OTHER -> {<<"start_date", "given">>, <<"end_date", "given">>}

FacadeCall(w, a) == [method |-> FacadeMethod(w, a), keywords |-> FacadeKeywords(w, a)]

\* Python binds keyword arguments by parameter name
Binds(call) == \A kw \in call.keywords : kw[1] \in FacadeParams(call.method)

\* the extra keywords the facade method hands to the provider query
QueryKeywords(call) ==
    IF call.method = "get_required_reserve_ratio_data"
    THEN {<<"yearType", kw[2]>> : kw \in {k \in call.keywords : k[1] = "year_type"}}
         \cup (IF \E k \in call.keywords : k[1] = "year_type" THEN {}
               ELSE {<<"yearType", "0">>})
    ELSE {}

\* isinstance(exc, cls) for the classes the except clauses name
IsInstance(exc, cls) ==
    CASE cls = "Exception" -> TRUE
      [] cls = "DataSourceError" ->
            exc.type \in {"DataSourceError", "LoginError", "NoDataFoundError"}
      [] OTHER -> exc.type = cls

\* the except clauses of tool w, in the order of the code
ExceptClauses(w) ==
    IF w \in FullChainTools
    THEN <<"NoDataFoundError", "LoginError", "DataSourceError", "ValueError", "Exception">>
    ELSE <<"Exception">>

\* the f-string of the except clause for class cls
ClauseText(cls, exc) ==
    CASE cls = "NoDataFoundError" -> <<"error: ", exc.tag>>
      [] cls = "LoginError" -> <<"error: ", "cannot connect to the data source. ", exc.tag>>
      [] cls = "DataSourceError" -> <<"error: ", "fetching the data failed. ", exc.tag>>
      [] cls = "ValueError" -> <<"error: ", "invalid input parameter. ", exc.tag>>
      [] OTHER -> <<"error: ", "unexpected error: ", exc.tag>>

\* the first except clause that matches
Caught(w, exc) ==
    LET clauses == ExceptClauses(w)
        i == CHOOSE k \in DOMAIN clauses :
                 /\ IsInstance(exc, clauses[k])
                 /\ \A j \in 1..(k - 1) : ~IsInstance(exc, clauses[j])
    IN  ClauseText(clauses[i], exc)

\* the formatting collaborator: (frame, format, max_rows, meta) to a string
format_table_output(frame) == <<"table", frame>>

\* filtered = df[df["code"].str.lower().str.contains(kw, na=False)]
FilterByCode(frame, kw) ==
    [frame EXCEPT !.rows =
        SelectSeq(frame.rows, LAMBDA row : Contains(Lower(Cell(frame, row, "code")), kw))]

\* what the tool returns once the facade call has ended
ToolAnswer(w, a, f) ==
    IF f.status = "raised" THEN Answer(Caught(w, f.exc))
    ELSE IF w = "search_stocks"
         THEN IF f.value.rows = <<>> THEN Answer(<<"(no data)">>)
              ELSE Answer(format_table_output(
                              FilterByCode(f.value, Lower(strip(a.keyword)))))
    ELSE Answer(format_table_output(f.value))

\* A registered tool is called.
WrapCall ==
    /\ wpc = "idle"
    /\ \E w \in Wrappers :
         /\ wrapper' = w
         /\ args' \in ArgsOf(w)
         /\ served' \in FacadeOutcomes(w)
    /\ wpc' = "entered"
    /\ UNCHANGED <<calls, facade, provider_args, answer>>

\* An argument check fails: the tool returns its error string.
WrapReject ==
    /\ wpc = "entered"
    /\ Rejection(wrapper, args) # <<>>
    /\ answer' = Answer(Rejection(wrapper, args))
    /\ wpc' = "done"
    /\ UNCHANGED <<wrapper, args, served, calls, facade, provider_args>>

\* The checks pass: the tool calls the facade method with its keywords.
FacadeInvoke ==
    /\ wpc = "entered"
    /\ Rejection(wrapper, args) = <<>>
    /\ calls' = Append(calls, FacadeCall(wrapper, args))
    /\ wpc' = "invoked"
    /\ UNCHANGED <<wrapper, args, served, facade, provider_args, answer>>

\* A keyword names no parameter of the method: the call raises TypeError.
FacadeBindRaises ==
    /\ wpc = "invoked"
    /\ ~Binds(calls[Len(calls)])
    /\ facade' = Raised(Exc("TypeError", "unexpected_keyword"))
    /\ wpc' = "ended"
    /\ UNCHANGED <<wrapper, args, served, calls, provider_args, answer>>

\* The facade method runs: the provider query gets its keywords, the call ends.
FacadeEnds ==
    /\ wpc = "invoked"
    /\ Binds(calls[Len(calls)])
    /\ provider_args' = QueryKeywords(calls[Len(calls)])
    /\ facade' = served
    /\ wpc' = "ended"
    /\ UNCHANGED <<wrapper, args, served, calls, answer>>

\* The rest of the tool: the formatted frame, or the except clause.
WrapFinish ==
    /\ wpc = "ended"
    /\ answer' = ToolAnswer(wrapper, args, facade)
    /\ wpc' = "done"
    /\ UNCHANGED <<wrapper, args, served, calls, facade, provider_args>>

\* The caller has the string.
WrapReturn ==
    /\ wpc = "done"
    /\ wpc' = "idle"
    /\ wrapper' = "none"
    /\ args' = NoArgs
    /\ served' = Pending
    /\ calls' = <<>>
    /\ facade' = Pending
    /\ provider_args' = {}
    /\ answer' = NoResult

\* the variables a step of a tool wrapper leaves alone
notWrap == <<dataVars, toolVars, frameVars, guardVars>>

WrapNext ==
    \/ WrapCall /\ UNCHANGED notWrap
    \/ WrapReject /\ UNCHANGED notWrap
    \/ FacadeInvoke /\ UNCHANGED notWrap
    \/ FacadeBindRaises /\ UNCHANGED notWrap
    \/ FacadeEnds /\ UNCHANGED notWrap
    \/ WrapFinish /\ UNCHANGED notWrap
    \/ WrapReturn /\ UNCHANGED notWrap

WrapSpec == Init /\ [][WrapNext]_vars

\* ------------------------------------------------------------- two threads in the guard
\* Two threads of one process each enter baostock_login_context once; a
\* thread may be preempted between any two calls of the guard.
InFlight(s) == s.at \notin {"idle", "done"}
Others(t) == Threads \ {t}

\* A guard that saves the descriptor after pointing it at the null device.
dup_AfterRedirect(fd) == "null"
\* os.dup(fd): a new descriptor for what fd refers to
dup(fd) == fd

\* A logout that leaves the provider session as it is.
logout_slot_Keep(slot) == slot
\* the provider's login slot after bs.login() returned code, after bs.logout() returned
login_slot(slot, code) == IF code = "0" THEN "in" ELSE slot
logout_slot(slot) == "out"

\* saved_stdout_fd = os.dup(original_stdout_fd), before bs.login()
ScopeEnter(t) ==
    /\ scopes[t].at = "idle"
    /\ scopes' = [scopes EXCEPT ![t].at = "saved", ![t].saved_stdout_fd = dup(shared_fd1)]
    /\ overlap' = (overlap \/ \E u \in Others(t) : InFlight(scopes[u]))
    /\ UNCHANGED <<shared_fd1, session>>

\* os.dup2(devnull_fd, original_stdout_fd), before bs.login()
ScopeNull(t) ==
    /\ scopes[t].at = "saved"
    /\ shared_fd1' = "null"
    /\ scopes' = [scopes EXCEPT ![t].at = "login"]
    /\ UNCHANGED <<session, overlap>>

\* bs.login() returns
ScopeLoginReturn(t) ==
    /\ scopes[t].at = "login"
    /\ \E code \in StatusCodes :
         /\ scopes' = [scopes EXCEPT ![t].at = "logged", ![t].lg = code]
         /\ session' = login_slot(session, code)
    /\ UNCHANGED <<shared_fd1, overlap>>

\* bs.login() raises: the thread leaves the guard at once
ScopeLoginRaise(t) ==
    /\ scopes[t].at = "login"
    /\ scopes' = [scopes EXCEPT ![t].at = "done", ![t].lg = "raised"]
    /\ UNCHANGED <<shared_fd1, session, overlap>>

\* os.dup2(saved_stdout_fd, original_stdout_fd), os.close, the test of lg.error_code
ScopeRestore(t) ==
    /\ scopes[t].at = "logged"
    /\ shared_fd1' = scopes[t].saved_stdout_fd
    /\ scopes' = [scopes EXCEPT ![t].at = IF scopes[t].lg = "0" THEN "body" ELSE "done",
                                ![t].saved_stdout_fd = "closed"]
    /\ UNCHANGED <<session, overlap>>

\* the body of the with-block (query, rows) ends, returning or raising
ScopeBody(t) ==
    /\ scopes[t].at = "body"
    /\ scopes' = [scopes EXCEPT ![t].at = "finally"]
    /\ UNCHANGED <<shared_fd1, session, overlap>>

\* saved_stdout_fd = os.dup(original_stdout_fd), before bs.logout()
ScopeSaveAgain(t) ==
    /\ scopes[t].at = "finally"
    /\ scopes' = [scopes EXCEPT ![t].at = "saved_again",
                                ![t].saved_stdout_fd = dup(shared_fd1)]
    /\ UNCHANGED <<shared_fd1, session, overlap>>

\* os.dup2(devnull_fd, original_stdout_fd), before bs.logout()
ScopeNullAgain(t) ==
    /\ scopes[t].at = "saved_again"
    /\ shared_fd1' = "null"
    /\ scopes' = [scopes EXCEPT ![t].at = "logout"]
    /\ UNCHANGED <<session, overlap>>

\* bs.logout() returns
ScopeLogoutReturn(t) ==
    /\ scopes[t].at = "logout"
    /\ scopes' = [scopes EXCEPT ![t].at = "logged_out", ![t].lo = "returned"]
    /\ session' = logout_slot(session)
    /\ UNCHANGED <<shared_fd1, overlap>>

\* bs.logout() raises, with the session released or not
ScopeLogoutRaise(t) ==
    /\ scopes[t].at = "logout"
    /\ scopes' = [scopes EXCEPT ![t].at = "done", ![t].lo = "raised"]
    /\ session' \in {session, "out"}
    /\ UNCHANGED <<shared_fd1, overlap>>

\* os.dup2(saved_stdout_fd, original_stdout_fd), os.close, after bs.logout()
ScopeRestoreAgain(t) ==
    /\ scopes[t].at = "logged_out"
    /\ shared_fd1' = scopes[t].saved_stdout_fd
    /\ scopes' = [scopes EXCEPT ![t].at = "done", ![t].saved_stdout_fd = "closed"]
    /\ UNCHANGED <<session, overlap>>

\* the variables a step of a thread in the guard leaves alone
notGuard == <<dataVars, toolVars, frameVars, wrapVars>>

GuardNext ==
    \/ \E t \in Threads : ScopeEnter(t) /\ UNCHANGED notGuard
    \/ \E t \in Threads : ScopeNull(t) /\ UNCHANGED notGuard
    \/ \E t \in Threads : ScopeLoginReturn(t) /\ UNCHANGED notGuard
    \/ \E t \in Threads : ScopeLoginRaise(t) /\ UNCHANGED notGuard
    \/ \E t \in Threads : ScopeRestore(t) /\ UNCHANGED notGuard
    \/ \E t \in Threads : ScopeBody(t) /\ UNCHANGED notGuard
    \/ \E t \in Threads : ScopeSaveAgain(t) /\ UNCHANGED notGuard
    \/ \E t \in Threads : ScopeNullAgain(t) /\ UNCHANGED notGuard
    \/ \E t \in Threads : ScopeLogoutReturn(t) /\ UNCHANGED notGuard
    \/ \E t \in Threads : ScopeLogoutRaise(t) /\ UNCHANGED notGuard
    \/ \E t \in Threads : ScopeRestoreAgain(t) /\ UNCHANGED notGuard

GuardSpec == Init /\ [][GuardNext]_vars

\* ------------------------------------------------------------- properties
Count(s, e) == Cardinality({i \in DOMAIN s : s[i] = e})
BodyFinished == bodyOutcome.status # "none"

\* C1: when bs.login() returns success, the body runs exactly once and
\* bs.logout() is called exactly once, after the body has finished, whether the
\* body returned or raised; logout is never called before or during the body.
C1_LogoutOnceAfterBody ==
    lg = "0" =>
        /\ Count(log, "body_start") = 1
        /\ Count(log, "body_end") <= 1
        /\ Count(log, "logout") <= 1
        /\ \A i \in DOMAIN log :
               log[i] = "logout" =>
                   \E j \in 1..(i - 1) : log[j] = "body_end"
        /\ \A i \in DOMAIN log :
               log[i] = "body_end" =>
                   \E j \in 1..(i - 1) : log[j] = "body_start"
        /\ pc = "done" =>
               /\ BodyFinished
               /\ Count(log, "body_end") = 1
               /\ Count(log, "logout") = 1
               /\ log[Len(log)] = "logout"

\* a call whose body raised after a successful login has ended, logout called
C1_Witness ==
    /\ pc = "done"
    /\ lg = "0"
    /\ bodyOutcome.status = "raised"
    /\ Count(log, "logout") = 1

\* C2: when bs.login() returns a non-success code the call ends at once with a
\* LoginError: the body is not run, no query is made and no row is drained.
C2_LoginFailureSkipsBody ==
    lg \in (StatusCodes \ {"0"}) =>
        /\ pc = "done"
        /\ outcome.status = "raised"
        /\ outcome.exc.type = "LoginError"
        /\ Count(log, "body_start") = 0
        /\ Count(log, "query") = 0
        /\ ~BodyFinished
        /\ rs = NoCursor
        /\ data_list = <<>>

\* a call ended by a failed login
C2_Witness ==
    /\ pc = "done"
    /\ lg = "10004"
    /\ Kind(outcome.exc) = "Login"

\* C3: when bs.logout() raises after the body has finished, the body's outcome
\* still reaches the caller: a returned table is delivered, and a classified
\* error of the body surfaces with the same kind.
C3_LogoutFailureKeepsOutcome ==
    (pc = "done" /\ BodyFinished /\ lo = "raised") =>
        /\ bodyOutcome.status = "returned" => outcome = bodyOutcome
        /\ (bodyOutcome.status = "raised" /\ Kind(bodyOutcome.exc) # "Unclassified") =>
               /\ outcome.status = "raised"
               /\ Kind(outcome.exc) = Kind(bodyOutcome.exc)

\* C4: once a guard invocation has ended, by any path, standard output refers
\* to the original stream again.
C4_StdoutRestoredAfterGuard ==
    pc \in {"done", "idle"} => fd1 = "orig"

\* C5: standard output refers to the null device only while bs.login() or
\* bs.logout() is executing; while the body runs it is the original stream.
C5_StdoutNullOnlyInLoginLogout ==
    /\ fd1 = "null" => pc \in {"login", "logout"}
    /\ pc \in {"body", "drain", "body_end"} => fd1 = "orig"

\* the cursor was drained to its end and held no row
DrainedEmpty ==
    /\ rs.error_code = "0"
    /\ BodyFinished
    /\ bodyOutcome.exc.tag # "cursor_raised"
    /\ data_list = <<>>

\* C6: for every facade method, a provider success whose drained row set is
\* empty makes the call raise NoData; it never returns an empty table.
C6_EmptySuccessIsNoData ==
    /\ (pc = "done" /\ DrainedEmpty) =>
           /\ outcome.status = "raised"
           /\ Kind(outcome.exc) = "NoData"
    /\ (pc = "done" /\ outcome.status = "returned") => outcome.value.rows # <<>>

\* C7: for every facade method, a non-success status is classified as NoData
\* exactly when the code is "10002" or the message holds "no record found" in
\* any letter case, and as ProviderError otherwise.
C7_StatusClassification ==
    (rs.error_code \in (StatusCodes \ {"0"}) /\ BodyFinished) =>
        /\ bodyOutcome.status = "raised"
        /\ IF rs.error_code = "10002" \/ Contains(Lower(rs.error_msg), NoRecordPattern)
           THEN Kind(bodyOutcome.exc) = "NoData"
           ELSE Kind(bodyOutcome.exc) = "ProviderError"

\* str.isdigit() on one character of the inputs
IsDigit(c) == c \in {"0", "1", "2", "3", "4", "5", "6", "7", "8", "9"}
\* a 4-digit year string
ValidYear(y) == Len(y) = 4 /\ \A i \in DOMAIN y : IsDigit(y[i])
ValidQuarter(q) == q \in 1..4

\* C8: a periodic-report fetch with a year that is no 4-digit string or a
\* quarter outside 1..4 raises InvalidInput before any provider call.
C8_PeriodicReportValidation ==
    (method \in FinancialMethods /\ ~(ValidYear(year) /\ ValidQuarter(quarter))) =>
        /\ Count(log, "login") = 0
        /\ Count(log, "query") = 0
        /\ pc = "done" =>
               /\ outcome.status = "raised"
               /\ Kind(outcome.exc) = "InvalidInput"

\* C9: get_historical_k_data and get_stock_basic_info with a field list holding
\* a non-string entry raise InvalidInput before any provider login or query.
C9_FieldListValidation ==
    (method \in FieldMethods /\ ~AllStrings(fields)) =>
        /\ Count(log, "login") = 0
        /\ Count(log, "query") = 0
        /\ pc = "done" =>
               /\ outcome.status = "raised"
               /\ Kind(outcome.exc) = "InvalidInput"

\* the requested names that are columns of the provider's cursor
RequestedAvailable ==
    {fields[i].v : i \in {j \in DOMAIN fields : fields[j].isStr}} \cap Range(rs.fields)

\* C10: get_stock_basic_info with a non-empty field list, on a provider success
\* with rows: the query asks for all columns and the call returns exactly the
\* requested fields that are provider columns; when none is, the call raises
\* InvalidInput (not NoData) and the session is still logged out.
C10_BasicInfoFieldSelection ==
    (/\ method = "get_stock_basic_info"
     /\ fields # <<>>
     /\ pc = "done"
     /\ rs.error_code = "0"
     /\ BodyFinished
     /\ bodyOutcome.exc.tag # "cursor_raised"
     /\ data_list # <<>>) =>
        /\ queryArg = <<>>
        /\ Count(log, "logout") = 1
        /\ IF RequestedAvailable = {}
           THEN /\ outcome.status = "raised"
                /\ Kind(outcome.exc) = "InvalidInput"
           ELSE /\ outcome.status = "returned"
                /\ Range(outcome.value.columns) = RequestedAvailable
                /\ Len(outcome.value.rows) = Len(data_list)

\* ------------------------------------------------------------- C11 .. C14
\* Position-preserving selection: cols lists distinct columns of provider in provider's order.
InProviderOrder(cols, provider) ==
    /\ \A i \in DOMAIN cols : cols[i] \in Range(provider)
    /\ \A i, j \in DOMAIN cols :
          i < j => IndexOf(provider, cols[i]) < IndexOf(provider, cols[j])

\* C11: every Tabular Result lists its columns in the provider's own column
\* order, also when get_stock_basic_info is given a fields subset in another
\* order or with repeated names.
C11_ProviderColumnOrder ==
    (pc = "done" /\ outcome.status = "returned")
        => InProviderOrder(outcome.value.columns, rs.fields)

FourKinds == {"Login", "NoData", "ProviderError", "InvalidInput"}
UnclassifiedRaised ==
    \/ lg = "raised"
    \/ lo = "raised"
    \/ (bodyOutcome.status = "raised" /\ Kind(bodyOutcome.exc) = "Unclassified")

\* C12: every facade call ends with a Tabular Result or with an error of one
\* of the four kinds; an exception of no kind raised by the query, the cursor,
\* the assembly or the guard's login and logout reaches the caller as a
\* ProviderError; no step of a call is stuck.
C12_TabularOrClassified ==
    /\ pc = "done" =>
          \/ outcome.status = "returned"
          \/ (outcome.status = "raised" /\ Kind(outcome.exc) \in FourKinds)
    /\ (pc = "done" /\ UnclassifiedRaised) =>
          (outcome.status = "raised" /\ Kind(outcome.exc) = "ProviderError")
    /\ pc \notin {"idle", "done"} => ENABLED Next

C12_Witness ==
    /\ pc = "done"
    /\ bodyOutcome = Raised(Exc("Other", "cursor_raised"))
    /\ lo = "returned"
    /\ outcome = Raised(Exc("DataSourceError", "unknown_error"))

\* C13: a classified error created inside a fetch (LoginError of the guard,
\* NoDataFoundError or DataSourceError of the status classification,
\* ValueError of the argument validation) reaches the caller as the same
\* exception, kind and message.
C13_ClassifiedReachesCaller ==
    /\ (pc = "done" /\ bodyOutcome.status = "raised"
            /\ Kind(bodyOutcome.exc) \in FourKinds) => outcome = bodyOutcome
    /\ (pc = "done" /\ lg \in StatusCodes \ {"0"})
            => outcome = Raised(Exc("LoginError", "login_failed"))
    /\ (pc = "done" /\ lg = "none" /\ log = <<>>)
            => outcome = Raised(Exc("ValueError", "fields_not_strings"))

\* C14: a facade call performs at most one login, one query and one logout,
\* whatever the outcome; a failed login or query is not tried again.
C14_AtMostOnceEach ==
    /\ Count(log, "login") <= 1
    /\ Count(log, "query") <= 1
    /\ Count(log, "logout") <= 1

C14_Witness ==
    /\ pc = "done"
    /\ lg \in StatusCodes \ {"0"}
    /\ log = <<"login">>

\* ------------------------------------------------------------- C15
\* C15: the second of two identical calls, against a provider that repeats
\* what it did in the first, ends as the first did (same table or same error)
\* after the same provider calls: nothing the first call left behind has an effect.
C15_SecondCallSameOutcome ==
    (prev.set /\ pc = "done") => (outcome = prev.outcome /\ log = prev.log)

C15_Witness ==
    /\ prev.set
    /\ pc = "done"
    /\ outcome.status = "returned"
    /\ outcome.value.rows # <<>>
    /\ outcome = prev.outcome

\* ------------------------------------------------------------- C16 .. C20
ToolEnded == tpc = "done"
ParseFailed == tool \in ParsingTools /\ strptime_raises(date)
\* the flagged days among the rows get_trade_dates returned
FlaggedReturned ==
    IF dates_df.status # "returned" THEN {}
    ELSE {strptime(r[1]) : r \in {x \in Range(dates_df.value.rows) : x[2] = "1"}}
LatestOf(S) == CHOOSE t \in S : \A u \in S : DateNotAfter(u, t)
EarliestOf(S) == CHOOSE t \in S : \A u \in S : DateNotAfter(t, u)

\* C16: when get_trade_dates fails with any error, or the date argument
\* cannot be parsed, get_latest_trading_date answers today's date and
\* previous_trading_day and next_trading_day answer the unmodified input date.
C16_FailureGivesFallback ==
    (ToolEnded /\ tool # "is_trading_day" /\ (dates_df.status = "raised" \/ ParseFailed))
        => result = Answer(IF tool = "get_latest_trading_date"
                           THEN strftime(today) ELSE date)

FlaggedEarlier == {t \in FlaggedReturned : DateBefore(t, strptime(date))}
FlaggedLater == {t \in FlaggedReturned : DateBefore(strptime(date), t)}

C18_NoDataIsNotTradingDay ==
    (ToolEnded /\ tool = "is_trading_day"
        /\ dates_df = Raised(Exc("NoDataFoundError", "empty_result")))
        => result = Answer(AnswerNo)

FlaggedToDate == {t \in FlaggedReturned : DateNotAfter(t, today)}

\* C19: get_latest_trading_date asks for day 1 to day 28 of the current
\* month, answers the latest flagged day on or before today among the rows
\* returned, answers today when there is none or the facade failed, never
\* raises, and never answers a day after today.
C19_LatestAmongFetched ==
    (ToolEnded /\ tool = "get_latest_trading_date") =>
      /\ asked = <<strftime(Date(today.y, today.m, 1)), strftime(Date(today.y, today.m, 28))>>
      /\ result = Answer(strftime(IF FlaggedToDate = {} THEN today
                                  ELSE LatestOf(FlaggedToDate)))
      /\ ~strptime_raises(result.value)
      /\ DateNotAfter(strptime(result.value), today)

C19_Witness ==
    /\ ToolEnded
    /\ tool = "get_latest_trading_date"
    /\ FlaggedToDate # {}
    /\ FlaggedToDate # FlaggedReturned
    /\ DateBefore(strptime(result.value), today)

TradingDaysToDate == {t \in calendar.days : DateNotAfter(t, today)}

\* C20: when the provider serves the query and its calendar has a trading
\* day on or before today, get_latest_trading_date answers the latest such
\* day, also on the 29th, 30th and 31st and before the month's first trading day.
C20_LatestTradingDayAsOfToday ==
    (ToolEnded /\ tool = "get_latest_trading_date" /\ dates_df.status = "returned"
        /\ TradingDaysToDate # {}
        /\ \A t \in calendar.days : DateNotAfter(t, calendar.until))
        => result = Answer(strftime(LatestOf(TradingDaysToDate)))

\* ------------------------------------------------------------- C21, C22, C26, C27
FrameEnded == tpc = "done" /\ tool = "get_market_analysis_timeframe"
\* the first day of the month k calendar months before the month of t
MonthsBefore(t, k) ==
    LET months == 12 * t.y + (t.m - 1) - k
    IN  Date(months \div 12, (months % 12) + 1, 1)

\* C21: period "recent" on January 10 of year Y starts in November of Y-1
\* and ends with an ISO date in January of Y; on January 20 it starts in
\* December of Y-1.
C21_RecentInJanuary ==
    (FrameEnded /\ period = "recent" /\ today.m = 1) =>
      /\ today.d = 10 =>
            /\ timeframe.start_date = Date(today.y - 1, 11, 1)
            /\ ~strptime_raises(timeframe.end_iso_date)
            /\ strptime(timeframe.end_iso_date).y = today.y
            /\ strptime(timeframe.end_iso_date).m = 1
      /\ today.d = 20 => timeframe.start_date = Date(today.y - 1, 12, 1)

C21_Witness ==
    /\ FrameEnded
    /\ period = "recent"
    /\ today = Date(2025, 1, 10)
    /\ timeframe.start_iso_date = strftime(Date(2024, 11, 1))

\* C22: for every day and keyword the ISO end date names a day of the
\* calendar (its day is at most the length of its month, 28 in a February of
\* a common year) and the ISO start date is not after the ISO end date.
C22_EndDateValid ==
    FrameEnded =>
      /\ ~timeframe.raised
      /\ ~strptime_raises(timeframe.end_iso_date)
      /\ strptime(timeframe.end_iso_date).d
            <= DaysInMonth(strptime(timeframe.end_iso_date).y,
                           strptime(timeframe.end_iso_date).m)
      /\ ~strptime_raises(timeframe.start_iso_date)
      /\ DateNotAfter(strptime(timeframe.start_iso_date), strptime(timeframe.end_iso_date))

C22_Witness ==
    /\ FrameEnded
    /\ today = Date(2025, 2, 28)
    /\ timeframe.end_iso_date = strftime(Date(2025, 2, 28))

\* C26: for "recent", before the 15th of any month the start is the first
\* day of the month two months back, from the 15th on the first day of the
\* month one month back, wrapping into the previous year where needed.
C26_RecentCutoffUniform ==
    (FrameEnded /\ period = "recent") =>
      timeframe.start_date = MonthsBefore(today, IF today.d < 15 THEN 2 ELSE 1)

\* C27: for every day and keyword, also one outside the four, the tool does
\* not raise and its start and middle months are in 1..12; "quarter",
\* "half_year" and "year" start on the first day of the month 3, 6 and 12
\* months back.
C27_ValidMonths ==
    FrameEnded =>
      /\ result.status = "returned"
      /\ timeframe.start_date.m \in 1..12
      /\ timeframe.middle_date.m \in 1..12
      /\ period = "quarter" => timeframe.start_date = MonthsBefore(today, 3)
      /\ period = "half_year" => timeframe.start_date = MonthsBefore(today, 6)
      /\ period = "year" => timeframe.start_date = MonthsBefore(today, 12)

C27_Witness ==
    /\ FrameEnded
    /\ period = "quarter"
    /\ today.m = 2
    /\ timeframe.start_date = Date(today.y - 1, 11, 1)

\* ------------------------------------------------------------- tool wrappers
WrapEnded == wpc = "done"
\* the strings that begin with the error mark
IsError(text) == Len(text) >= 1 /\ text[1] = "error: "

\* C25: get_required_reserve_ratio_data with year_type '0' or '1' reaches the
\* facade method and the provider query with yearType equal to the caller's
\* value, every hop accepts the extra keyword, and when the provider has data
\* the tool returns the formatted table, not an unexpected-error string.
C25_YearTypeReachesProvider ==
    (wrapper = "get_required_reserve_ratio_data" /\ args.year_type \in {"0", "1"}) =>
        /\ wpc \in {"ended", "done"} =>
              /\ Len(calls) = 1
              /\ calls[1].method = "get_required_reserve_ratio_data"
              /\ facade = served
              /\ provider_args = {<<"yearType", args.year_type>>}
        /\ (WrapEnded /\ served.status = "returned") =>
              answer = Answer(format_table_output(served.value))

\* the arguments the tools are to refuse, read from the tools' documentation
InvalidArguments(w, a) ==
    CASE w \in FinancialTools -> ~ValidYear(a.year) \/ ~ValidQuarter(a.quarter)
      [] w = "get_historical_k_data" ->
            \/ a.frequency \notin {"d", "w", "m", "5", "15", "30", "60"}
            \/ a.adjust_flag \notin {"1", "2", "3"}
      [] w = "get_dividend_data" ->
            a.year_type \notin {"report", "operate"} \/ ~ValidYear(a.year)
      [] w = "get_index_constituents" ->
            \A name \in ValidIndexKeys : Lower(strip(a.index)) # name
      [] w = "get_required_reserve_ratio_data" -> a.year_type \notin {"0", "1"}
      [] OTHER -> FALSE

\* C28: a tool called with an invalid year, quarter, frequency, adjust flag,
\* year type or index name (names compared trimmed and in lower case) never
\* invokes a facade method and returns an error string.
C28_RejectedBeforeFacade ==
    InvalidArguments(wrapper, args) =>
        /\ calls = <<>>
        /\ facade = Pending
        /\ wpc \notin {"invoked", "ended"}
        /\ WrapEnded => (answer.status = "returned" /\ IsError(answer.value))

C28_Witness ==
    /\ WrapEnded
    /\ wrapper = "get_dividend_data"
    /\ args.year_type = "operate"
    /\ ~ValidYear(args.year)
    /\ calls = <<>>
    /\ IsError(answer.value)

\* the message the tools give each kind of error
OwnMessage(exc) ==
    CASE Kind(exc) = "NoData" -> <<"error: ", exc.tag>>
      [] Kind(exc) = "Login" -> <<"error: ", "cannot connect to the data source. ", exc.tag>>
      [] Kind(exc) = "ProviderError" -> <<"error: ", "fetching the data failed. ", exc.tag>>
      [] Kind(exc) = "InvalidInput" -> <<"error: ", "invalid input parameter. ", exc.tag>>
      [] OTHER -> <<"error: ", "unexpected error: ", exc.tag>>

\* C29: every tool returns a string whatever the facade call did, and when the
\* facade raised a NoData, Login, ProviderError or InvalidInput error the
\* string is the message of that kind.
C29_EachKindOwnMessage ==
    WrapEnded =>
        /\ answer.status = "returned"
        /\ facade.status = "raised" => answer.value = OwnMessage(facade.exc)

\* ------------------------------------------------------------- round trips
\* the days the provider's calendar flags
Flagged == {t \in calendar.days : DateNotAfter(t, calendar.until)}
FlaggedWithinBefore(d) ==
    {t \in Flagged : DateBefore(t, d) /\ DateNotAfter(AddDays(d, 0 - 30), t)}
FlaggedWithinAfter(d) ==
    {t \in Flagged : DateBefore(d, t) /\ DateNotAfter(t, AddDays(d, 30))}
\* both calls of a chain were served by the provider
ChainServed ==
    /\ ToolEnded
    /\ first.tool \in ParsingTools
    /\ first.dates_df.status = "returned"
    /\ dates_df.status = "returned"

\* C30: on one provider calendar, for a flagged day d with a flagged day in
\* the 30 days before it, next_trading_day(previous_trading_day(d)) = d, and
\* with a flagged day in the 30 days after it,
\* previous_trading_day(next_trading_day(d)) = d.
C30_RoundTrip ==
    (ChainServed /\ strptime(first.date) \in Flagged) =>
        /\ (first.tool = "previous_trading_day"
            /\ FlaggedWithinBefore(strptime(first.date)) # {}) => result = Answer(first.date)
        /\ (first.tool = "next_trading_day"
            /\ FlaggedWithinAfter(strptime(first.date)) # {}) => result = Answer(first.date)

C30_Witness ==
    /\ ChainServed
    /\ first.tool = "previous_trading_day"
    /\ first.date = strftime(Date(2025, 3, 31))
    /\ Date(2025, 3, 31) \in Flagged
    /\ first.result = Answer(strftime(Date(2025, 3, 1)))
    /\ result = Answer(first.date)

\* ------------------------------------------------------------- two threads
AllFinished == \A t \in Threads : scopes[t].at = "done"
\* bs.login() and bs.logout() have returned whenever they were called
ProviderReturned == \A t \in Threads : scopes[t].lg # "raised" /\ scopes[t].lo # "raised"
\* the thread is between its redirection of stdout and its restoration
Suppressing(s) == s.at \in {"login", "logged", "logout", "logged_out"}
\* the thread is between its successful login and its logout
LoggedIn(s) ==
    s.lg = "0" /\ s.at \in {"logged", "body", "finally", "saved_again", "logout"}

\* C23: scopes that run one after the other leave standard output where it
\* was, and on the null device exactly inside a login or logout; when both
\* scopes have finished with standard output still on the null device (no
\* provider call having raised) the scopes were interleaved.
C23_CorruptionOnlyWhenInterleaved ==
    ProviderReturned =>
        /\ ~overlap => (shared_fd1 = "null" <=> \E t \in Threads : Suppressing(scopes[t]))
        /\ (AllFinished /\ shared_fd1 = "null") => overlap

\* both scopes finished, every provider call returned, stdout is lost: the
\* second scope saved the redirected descriptor and restored it last
C23_Witness ==
    /\ AllFinished
    /\ ProviderReturned
    /\ \A t \in Threads : scopes[t].lo = "returned"
    /\ overlap
    /\ shared_fd1 = "null"

\* C24: when the scopes run one after the other the provider is logged in
\* exactly from a scope's successful login to its logout, so whenever a body
\* is running, and logged out when no scope is in flight; a body running
\* with the provider logged out means the scopes were interleaved.
C24_SessionUnderSerialization ==
    (\A t \in Threads : scopes[t].lo # "raised") =>
        /\ ~overlap =>
              /\ session = "in" <=> \E t \in Threads : LoggedIn(scopes[t])
              /\ \A t \in Threads : scopes[t].at = "body" => session = "in"
              /\ (\A t \in Threads : ~InFlight(scopes[t])) => session = "out"
        /\ (\E t \in Threads : scopes[t].at = "body" /\ session = "out") => overlap

\* one call's logout has released the session while the other's body runs
C24_Witness ==
    \E t \in Threads : \E u \in Others(t) :
        /\ scopes[t].at = "body"
        /\ scopes[u].lo = "returned"
        /\ session = "out"

\* ------------------------------------------------------------- supporting facts
\* What holds of the code where C3, C6, C7 and C10 fail: the body's outcome
\* reaches the caller whenever bs.logout() returns.
LogoutReturnKeepsOutcome ==
    (pc = "done" /\ BodyFinished /\ lo = "returned") => outcome = CallOutcome(bodyOutcome)

\* An empty drained row set makes the body raise NoDataFoundError, in every method.
EmptyResultBodyRaisesNoData ==
    DrainedEmpty => bodyOutcome = Raised(Exc("NoDataFoundError", "empty_result"))

\* Every method but get_trade_dates classifies a non-success status as the spec says.
ClassificationExceptTradeDates ==
    method # "get_trade_dates" => C7_StatusClassification

\* The field selection of get_stock_basic_info is as C10 says whenever bs.logout() returns.
FieldSelectionWhenLogoutReturns ==
    lo = "returned" => C10_BasicInfoFieldSelection

====
